---- MODULE Spec2Model ----
(***************************************************************************)
(* Model of src/src/lib.rs: the permutation-indexed boolean Machine, its   *)
(* two thread-local caches (INDEX_TO_TERM, TERM_TO_INDEX) and the          *)
(* operations new, all, flip, get and set.                                 *)
(*                                                                         *)
(* Spec        one Machine and the calls made on it, with variables in and *)
(*             out of its range;                                           *)
(* SpecInRange the same with every variable below Machine.variables;       *)
(* SpecThreads the caches of several threads under calls on Machines of    *)
(*             several sizes;                                              *)
(* SpecNested  Machine::new with a producer that calls the Machine API.    *)
(*                                                                         *)
(* Indices are 0-based as in the Rust code; a Vec is a TLA+ sequence, so   *)
(* the element at Rust index i is the sequence element i + 1 (At).         *)
(***************************************************************************)
EXTENDS Integers, Sequences, FiniteSets, TLC

\* Largest universe size for which every machine is explored.
MaxN == 2

\* Universe size of tests::three and tests::all.
ThreeVariables == 3

VARIABLES
    INDEX_TO_TERM,  \* thread-local cache: variables -> Term Table (Vec<Vec<usize>>)
    TERM_TO_INDEX,  \* thread-local cache: variables -> (term -> index)
    pc,             \* "start": no Machine built yet; "live": a Machine exists;
                    \* "returned": an operation has returned and the caller looks
                    \* at its outcome (the assert_eq! lines of the tests);
                    \* "panicked": an operation has panicked
    variables,      \* Machine.variables
    values,         \* Machine.values
    last,           \* the last operation called, its arguments and what it returned
    pre,            \* the Machine as it was when the last operation was called
    step,           \* how many operations of tests::experimental the run has followed
    rel,            \* tests::equals / tests::not_equals: the relation at construction
    threads,        \* the thread-locals of several threads and their last call
    nested          \* a Machine::new that is running its producer, the RefCell
                    \* borrows it holds, and the call its producer has made

vars == <<INDEX_TO_TERM, TERM_TO_INDEX, pc, variables, values, last, pre, step, rel,
          threads, nested>>

\* Rust's vec[i] with a 0-based index.
At(vec, i) == vec[i + 1]

\* 0-based index range of a Vec.
Indices(vec) == 0 .. (Len(vec) - 1)

RECURSIVE Concat(_)
\* Iterator::flat_map(..).collect(): the chunks one after the other.
Concat(chunks) ==
    IF chunks = <<>> THEN <<>> ELSE Head(chunks) \o Concat(Tail(chunks))

\* The pool with the element at sequence position i removed.
Without(pool, i) == SubSeq(pool, 1, i - 1) \o SubSeq(pool, i + 1, Len(pool))

RECURSIVE k_permutations(_, _)
\* Itertools::permutations(len) over the pool: every ordered selection of len
\* elements at distinct positions, in lexicographic order of the positions.
k_permutations(pool, len) ==
    IF len = 0 THEN << <<>> >>
    ELSE Concat([i \in 1 .. Len(pool) |->
            LET rest == k_permutations(Without(pool, i), len - 1)
            IN  [j \in 1 .. Len(rest) |-> <<pool[i]>> \o rest[j]]])

\* 0..variables as a Vec.
range(n) == [i \in 1 .. n |-> i - 1]

\* Mutant of build_index_to_term: the lengths are walked from variables down to 1.
build_index_to_term_longest_first(n) ==
    Concat([len \in 1 .. n |-> k_permutations(range(n), n + 1 - len)])

\* The closure of or_insert_with in index_to_term: the Term Table for n.
build_index_to_term(n) ==
    Concat([len \in 1 .. n |-> k_permutations(range(n), len)])

\* The Term Tables for the universe sizes the model uses, built once.
TermTables == [n \in 0 .. (IF MaxN > ThreeVariables THEN MaxN ELSE ThreeVariables)
                 |-> build_index_to_term(n)]

\* Mutant of index_to_term: the cache keeps the table of one size only.
index_to_term_single_entry(caches, n) ==
    IF n \in DOMAIN caches THEN caches ELSE (n :> TermTables[n])

\* caches.entry(variables).or_insert_with(..) on INDEX_TO_TERM.
index_to_term(caches, n) ==
    IF n \in DOMAIN caches THEN caches ELSE (n :> TermTables[n]) @@ caches

\* Mutant of build_term_to_index: the indices count from the end of the table.
build_term_to_index_reversed(table) ==
    [term \in {table[i] : i \in 1 .. Len(table)} |->
        Len(table) - (CHOOSE i \in 1 .. Len(table) : table[i] = term)]

\* The closure of or_insert_with in term_to_index: enumerate the Term Table and
\* collect (term, index) into a HashMap; a later pair replaces an earlier one.
build_term_to_index(table) ==
    [term \in {table[i] : i \in 1 .. Len(table)} |->
        (CHOOSE i \in 1 .. Len(table) :
            /\ table[i] = term
            /\ \A j \in (i + 1) .. Len(table) : table[j] # term) - 1]

\* build_term_to_index of the Term Tables above, built once: what the closure
\* returns for a table is a function of the table alone.
TermIndexes == [n \in DOMAIN TermTables |-> build_term_to_index(TermTables[n])]

\* caches.entry(variables).or_insert_with(..) on TERM_TO_INDEX; the closure reads
\* the Term Table through index_to_term.
term_to_index(caches, tables, n) ==
    IF n \in DOMAIN caches THEN caches
    ELSE LET table == index_to_term(tables, n)[n]
         IN  (n :> (IF table = TermTables[n] THEN TermIndexes[n]
                    ELSE build_term_to_index(table))) @@ caches

\* A producer that is a function of the term (the closures of the tests).
term_producer(f) == [stateful |-> FALSE, f |-> f, signature |-> <<>>]

\* The closure of Machine::all: it ignores the term, returns
\* signature[term_index] and increments term_index.
signature_producer(signature) == [stateful |-> TRUE, f |-> <<>>, signature |-> signature]

\* One call of initial_values_producer; calls is the number of calls made before.
call_producer(P, calls, term) ==
    IF P.stateful THEN At(P.signature, calls) ELSE P.f[term]

RECURSIVE produce(_, _, _, _)
\* The loop of Machine::new: one producer call per term of the table, in order.
\* The result holds the values pushed and the terms the producer was called with.
produce(table, P, i, acc) ==
    IF i > Len(table) THEN acc
    ELSE produce(table, P, i + 1,
                 [values |-> Append(acc.values, call_producer(P, Len(acc.calls), table[i])),
                  calls  |-> Append(acc.calls, table[i])])

\* Mutant of new: the values are pushed at the front, so they end up reversed.
new_reversed(table, P) ==
    LET made == produce(table, P, 1, [values |-> <<>>, calls |-> <<>>])
    IN  [values |-> [i \in 1 .. Len(made.values) |->
                        made.values[Len(made.values) + 1 - i]],
         calls  |-> made.calls]

\* Machine::new on the cached Term Table.
new(table, P) == produce(table, P, 1, [values |-> <<>>, calls |-> <<>>])

RECURSIVE factorial(_)
\* (1..=n).product()
factorial(n) == IF n = 0 THEN 1 ELSE n * factorial(n - 1)

\* factorial(n) / factorial(n - k)
permutations(n, k) == factorial(n) \div factorial(n - k)

RECURSIVE sum_permutations(_, _)
\* (1..=variables).map(|k| permutations(variables, k)).sum()
sum_permutations(n, k) ==
    IF k > n THEN 0 ELSE permutations(n, k) + sum_permutations(n, k + 1)

RECURSIVE multi_cartesian_product(_)
\* Itertools::multi_cartesian_product of count copies of [false, true]: every
\* choice of one element per copy, the last copy cycling fastest.
multi_cartesian_product(count) ==
    IF count = 0 THEN << <<>> >>
    ELSE LET shorter == multi_cartesian_product(count - 1)
         IN  [i \in 1 .. 2 * Len(shorter) |->
                Append(shorter[(i + 1) \div 2], i % 2 = 0)]

\* Mutant of all: the signatures are one element short of the sum.
all_short_count(n, table) ==
    LET signatures == multi_cartesian_product(sum_permutations(n, 1) - 1)
    IN  [s \in 1 .. Len(signatures) |->
            new(SubSeq(table, 1, Len(table) - 1),
                signature_producer(signatures[s])).values \o <<FALSE>>]

\* Machine::all: the values of the machines pushed, in order.
all(n, table) ==
    LET signatures == multi_cartesian_product(sum_permutations(n, 1))
    IN  [s \in 1 .. Len(signatures) |->
            new(table, signature_producer(signatures[s])).values]

\* Machine::all(n) for the universe sizes explored, computed once.
AllMachines == [n \in 1 .. MaxN |-> all(n, TermTables[n])]

\* The values arrays of AllMachines, as sets.
AllValues == [n \in 1 .. MaxN |-> {AllMachines[n][i] : i \in 1 .. Len(AllMachines[n])}]

\* Mutant of toggle: `|= true` instead of `^= true`.
toggle_or_true(vals, index) == [vals EXCEPT ![index + 1] = TRUE]

\* self.values[index] ^= true
toggle(vals, index) == [vals EXCEPT ![index + 1] = ~@]

RECURSIVE collect_terms_to_flip(_, _, _, _)
\* Mutant of collect_terms_to_flip: the filter forgets `&& value`.
collect_terms_to_flip_any_value(vals, table, variable, index) ==
    IF index >= Len(vals) THEN <<>>
    ELSE (IF At(table, index)[1] = variable /\ Len(At(table, index)) > 1
          THEN << Tail(At(table, index)) >> ELSE <<>>)
         \o collect_terms_to_flip(vals, table, variable, index + 1)

\* Mutant of collect_terms_to_flip: the map keeps the whole term instead of
\* the suffix [1..].
collect_terms_to_flip_whole_term(vals, table, variable, index) ==
    IF index >= Len(vals) THEN <<>>
    ELSE (IF At(table, index)[1] = variable /\ At(vals, index)
             /\ Tail(At(table, index)) # <<>>
          THEN << At(table, index) >> ELSE <<>>)
         \o collect_terms_to_flip(vals, table, variable, index + 1)

\* The iterator chain of flip: enumerate values, keep the true ones whose term
\* starts with variable, map to the suffix, drop the empty suffixes.
collect_terms_to_flip(vals, table, variable, index) ==
    IF index >= Len(vals) THEN <<>>
    ELSE (IF At(table, index)[1] = variable /\ At(vals, index)
             /\ Tail(At(table, index)) # <<>>
          THEN << Tail(At(table, index)) >> ELSE <<>>)
         \o collect_terms_to_flip(vals, table, variable, index + 1)

RECURSIVE toggle_all(_, _, _)
\* for term in terms_to_flip { self.values[term_to_index[&term]] ^= true; }
toggle_all(vals, tti, terms) ==
    IF terms = <<>> THEN vals
    ELSE toggle_all(toggle(vals, tti[Head(terms)]), tti, Tail(terms))

\* Mutant of flip: the cascade of suffix toggles is left out.
flip_no_cascade(vals, table, tti, variable) == toggle(vals, tti[<<variable>>])

\* Mutant of flip: the singleton is toggled a second time after the cascade.
flip_singleton_twice(vals, table, tti, variable) ==
    LET first == toggle(vals, tti[<<variable>>])
    IN  toggle(toggle_all(first, tti,
                          collect_terms_to_flip(first, table, variable, 0)),
               tti[<<variable>>])

\* The body of Machine::flip on the values array.
flip(vals, table, tti, variable) ==
    LET first == toggle(vals, tti[<<variable>>])
    IN  toggle_all(first, tti, collect_terms_to_flip(first, table, variable, 0))

RECURSIVE scan_and_toggle(_, _, _, _, _)
\* A variant of the scan of flip that does not collect: it visits the indices in
\* the given order, reads the value as it is at that moment, and toggles the
\* suffix of a selected term at once.
scan_and_toggle(vals, table, tti, variable, order) ==
    IF order = <<>> THEN vals
    ELSE LET index == Head(order)
             term == At(table, index)
             selected == term[1] = variable /\ At(vals, index) /\ Tail(term) # <<>>
         IN  scan_and_toggle(IF selected THEN toggle(vals, tti[Tail(term)]) ELSE vals,
                             table, tti, variable, Tail(order))

\* The single-pass variant of flip: [v] is toggled, then scan_and_toggle.
flip_single_pass(vals, table, tti, variable, order) ==
    scan_and_toggle(toggle(vals, tti[<<variable>>]), table, tti, variable, order)

\* The variant of flip that scans and toggles the suffixes first and toggles
\* [v] last.
flip_singleton_last(vals, table, tti, variable) ==
    toggle(toggle_all(vals, tti, collect_terms_to_flip(vals, table, variable, 0)),
           tti[<<variable>>])

\* The body of Machine::get.
get(vals, tti, variable) == At(vals, tti[<<variable>>])

\* Mutant of set: flips when the value is already the one asked for.
set_when_equal(vals, table, tti, variable, value) ==
    IF get(vals, tti, variable) = value
    THEN flip(vals, table, tti, variable) ELSE vals

\* Mutant of set: the comparison with get is left out, set always flips.
set_always_flip(vals, table, tti, variable, value) == flip(vals, table, tti, variable)

\* The body of Machine::set.
set(vals, table, tti, variable, value) ==
    IF get(vals, tti, variable) # value
    THEN flip(vals, table, tti, variable) ELSE vals

\* Mutant of get_call: a variable that is not in the Index Map reads as false
\* (HashMap::get with a default) instead of failing.
get_call_default(vals, tti, variable) ==
    IF <<variable>> \in DOMAIN tti
    THEN [panicked |-> FALSE, ret |-> get(vals, tti, variable)]
    ELSE [panicked |-> FALSE, ret |-> FALSE]

\* Machine::get as a call that may fail: term_to_index[&vec![variable]] is
\* HashMap's Index, which panics when the key is missing; nothing is read from
\* values before that.
get_call(vals, tti, variable) ==
    IF <<variable>> \in DOMAIN tti
    THEN [panicked |-> FALSE, ret |-> get(vals, tti, variable)]
    ELSE [panicked |-> TRUE, ret |-> FALSE]

\* Mutant of flip_call: a variable that is not in the Index Map is skipped and
\* the call returns.
flip_call_skip(vals, table, tti, variable) ==
    IF <<variable>> \in DOMAIN tti
    THEN [panicked |-> FALSE, values |-> flip(vals, table, tti, variable)]
    ELSE [panicked |-> FALSE, values |-> vals]

\* Machine::flip as a call that may fail: in its first statement the index
\* expression term_to_index[&vec![variable]] is evaluated before the `^= true`
\* and panics when the key is missing.
flip_call(vals, table, tti, variable) ==
    IF <<variable>> \in DOMAIN tti
    THEN [panicked |-> FALSE, values |-> flip(vals, table, tti, variable)]
    ELSE [panicked |-> TRUE, values |-> vals]

\* Machine::set as a call that may fail: the panic of its get unwinds through
\* set before flip is reached; when get returns, the key flip looks up first is
\* the one get has found.
set_call(vals, table, tti, variable, value) ==
    IF get_call(vals, tti, variable).panicked
    THEN [panicked |-> TRUE, values |-> vals]
    ELSE [panicked |-> FALSE, values |-> set(vals, table, tti, variable, value)]

\* Where the caller is after a call: a panic unwinds out of it.
after_call(panicked) == IF panicked THEN "panicked" ELSE "returned"

\* ---------------------------------------------------------------- state

\* Every term over {0..n-1}: the non-empty sequences of distinct variable ids.
Terms(n) ==
    UNION {{t \in [1 .. k -> 0 .. (n - 1)] :
                \A i, j \in 1 .. k : i # j => t[i] # t[j]} : k \in 1 .. n}

\* The value a values array holds for a term: the slot at the term's position.
value_of(vals, table, term) ==
    vals[CHOOSE i \in 1 .. Len(table) : table[i] = term]

\* The producer of tests::three.
three_producer ==
    (<<0>> :> FALSE) @@ (<<1>> :> TRUE) @@ (<<2>> :> TRUE) @@
    (<<0, 1>> :> TRUE) @@ (<<0, 2>> :> TRUE) @@ (<<1, 0>> :> TRUE) @@
    (<<1, 2>> :> TRUE) @@ (<<2, 0>> :> TRUE) @@ (<<2, 1>> :> FALSE) @@
    (<<0, 1, 2>> :> FALSE) @@ (<<0, 2, 1>> :> TRUE) @@ (<<1, 0, 2>> :> FALSE) @@
    (<<1, 2, 0>> :> FALSE) @@ (<<2, 0, 1>> :> FALSE) @@ (<<2, 1, 0>> :> FALSE)

\* The producer of tests::experimental.
experimental_producer ==
    (<<0>> :> FALSE) @@ (<<1>> :> FALSE) @@ (<<0, 1>> :> TRUE) @@ (<<1, 0>> :> FALSE)

\* The set calls of tests::experimental, in order: <<variable, value>>.
experimental_script ==
    << <<0, TRUE>>, <<0, FALSE>>, <<1, TRUE>>, <<1, FALSE>>,
       <<1, TRUE>>, <<0, TRUE>>, <<1, FALSE>>, <<0, FALSE>> >>

\* step when the run is not (or no longer) the run of tests::experimental.
OffScript == 0 - 1

\* The record of an operation; the fields an operation does not use keep these.
NoOperation ==
    [op |-> "none", variable |-> 0, value |-> FALSE, ret |-> FALSE,
     f |-> <<>>, calls |-> <<>>, len |-> 0, index |-> 0]

\* The Machine as a record, for pre.
Machine(n, vals) == [variables |-> n, values |-> vals]

\* The relation tests::equals and tests::not_equals are about, at construction:
\* for two variables whose pair terms are both true, whether get(0) == get(1).
relation_at_construction(n, vals, table) ==
    IF n = 2 /\ value_of(vals, table, <<0, 1>>) /\ value_of(vals, table, <<1, 0>>)
    THEN (IF value_of(vals, table, <<0>>) = value_of(vals, table, <<1>>)
          THEN "eq" ELSE "neq")
    ELSE "na"

\* The threads of the process that use Machines. thread_local! gives each
\* thread its own INDEX_TO_TERM and its own TERM_TO_INDEX.
Threads == {"main", "spawned"}

\* The universe sizes of the Machines the threads use.
Sizes == 0 .. MaxN

\* The thread-locals of a thread that has not used them, with the number of
\* times each closure of or_insert_with has run in the thread, per size.
NoThreadLocals ==
    [INDEX_TO_TERM |-> <<>>, TERM_TO_INDEX |-> <<>>,
     tables_built |-> [n \in Sizes |-> 0], maps_built |-> [n \in Sizes |-> 0]]

\* The record of a call made by a thread: what it called on a Machine of which
\* size, and how many tables and maps the call built.
NoCall == [thread |-> "none", op |-> "none", n |-> 0, tables_built |-> 0, maps_built |-> 0]

\* No RefCell of the thread is borrowed.
NoBorrows == [INDEX_TO_TERM |-> FALSE, TERM_TO_INDEX |-> FALSE]

\* The record of the call a producer makes: the operation, the size k of the
\* Machine it is made on, whether the Index Map for k was cached when it was
\* made, and how it ended.
NoInnerCall == [op |-> "none", k |-> 0, cached |-> FALSE, outcome |-> "none"]

\* No Machine::new with a calling producer is running.
NotNested ==
    [state |-> "idle", n |-> 0, pushed |-> 0, borrowed |-> NoBorrows,
     inner |-> NoInnerCall]

Init ==
    /\ nested = NotNested
    /\ threads = [of |-> [t \in Threads |-> NoThreadLocals], last |-> NoCall]
    /\ INDEX_TO_TERM = <<>>
    /\ TERM_TO_INDEX = <<>>
    /\ pc = "start"
    /\ variables = 0
    /\ values = <<>>
    /\ last = NoOperation
    /\ pre = Machine(0, <<>>)
    /\ step = OffScript
    /\ rel = "na"

\* let mut system = Machine::new(n, |term| f[term]);
New(n, f) ==
    /\ pc = "start"
    /\ LET tables == index_to_term(INDEX_TO_TERM, n)
           made == new(tables[n], term_producer(f))
       IN  /\ INDEX_TO_TERM' = tables
           /\ variables' = n
           /\ values' = made.values
           /\ last' = [NoOperation EXCEPT !.op = "new", !.f = f, !.calls = made.calls]
           /\ rel' = relation_at_construction(n, made.values, tables[n])
    /\ pc' = "returned"
    /\ pre' = Machine(variables, values)
    /\ step' = IF n = 2 /\ f = experimental_producer THEN 0 ELSE OffScript
    /\ UNCHANGED <<TERM_TO_INDEX, threads, nested>>

\* tests::three up to its flip: Machine::new(3, ..) with the producer of the test.
TestThree == New(ThreeVariables, three_producer)

\* let machines = Machine::all(n); let mut system = machines[index].clone();
\* Every Machine::new inside all goes through index_to_term. For n = 0 the sum is
\* 0 and what the product of no iterators yields (nothing, or one empty
\* signature) is decided by the Itertools version, which the source does not
\* pin: all is called with n >= 1 here.
All(n, index) ==
    /\ pc = "start"
    /\ LET tables == index_to_term(INDEX_TO_TERM, n)
           machines == AllMachines[n]
       IN  /\ index \in Indices(machines)
           /\ INDEX_TO_TERM' = tables
           /\ variables' = n
           /\ values' = At(machines, index)
           /\ last' = [NoOperation EXCEPT !.op = "all", !.len = Len(machines),
                                          !.index = index]
           /\ rel' = relation_at_construction(n, At(machines, index), tables[n])
    /\ pc' = "returned"
    /\ pre' = Machine(variables, values)
    /\ step' = OffScript
    /\ UNCHANGED <<TERM_TO_INDEX, threads, nested>>

\* system.flip(variable). Both caches are read (and filled on first use) before
\* the body runs; a variable that is not below variables makes the body panic.
Flip(variable) ==
    /\ pc = "live"
    /\ LET indexes == term_to_index(TERM_TO_INDEX, INDEX_TO_TERM, variables)
           tables == index_to_term(INDEX_TO_TERM, variables)
           call == flip_call(values, tables[variables], indexes[variables], variable)
       IN  /\ TERM_TO_INDEX' = indexes
           /\ INDEX_TO_TERM' = tables
           /\ values' = call.values
           /\ pc' = after_call(call.panicked)
    /\ last' = [NoOperation EXCEPT !.op = "flip", !.variable = variable]
    /\ pre' = Machine(variables, values)
    /\ step' = OffScript
    /\ UNCHANGED <<variables, rel, threads, nested>>

\* system.get(variable). term_to_index builds the Index Map on first use,
\* reading the Term Table through index_to_term; a variable that is not below
\* variables makes the body panic.
Get(variable) ==
    /\ pc = "live"
    /\ LET indexes == term_to_index(TERM_TO_INDEX, INDEX_TO_TERM, variables)
           call == get_call(values, indexes[variables], variable)
       IN  /\ TERM_TO_INDEX' = indexes
           /\ INDEX_TO_TERM' = IF variables \in DOMAIN TERM_TO_INDEX THEN INDEX_TO_TERM
                               ELSE index_to_term(INDEX_TO_TERM, variables)
           /\ last' = [NoOperation EXCEPT !.op = "get", !.variable = variable,
                           !.ret = call.ret]
           /\ pc' = after_call(call.panicked)
    /\ pre' = Machine(variables, values)
    /\ UNCHANGED <<variables, values, step, rel, threads, nested>>

\* system.set(variable, value): get, then flip if it differs; a variable that
\* is not below variables makes get panic.
Set(variable, value) ==
    /\ pc = "live"
    /\ LET indexes == term_to_index(TERM_TO_INDEX, INDEX_TO_TERM, variables)
           tables == index_to_term(INDEX_TO_TERM, variables)
           call == set_call(values, tables[variables], indexes[variables],
                            variable, value)
       IN  /\ TERM_TO_INDEX' = indexes
           /\ INDEX_TO_TERM' = tables
           /\ values' = call.values
           /\ pc' = after_call(call.panicked)
    /\ last' = [NoOperation EXCEPT !.op = "set", !.variable = variable, !.value = value]
    /\ pre' = Machine(variables, values)
    /\ step' = IF /\ step \in 0 .. (Len(experimental_script) - 1)
                  /\ experimental_script[step + 1] = <<variable, value>>
               THEN step + 1 ELSE OffScript
    /\ UNCHANGED <<variables, rel, threads, nested>>

\* The caller is done looking at the outcome of the last operation and goes on
\* to its next call; the record of the call is dropped.
Continue ==
    /\ pc = "returned"
    /\ pc' = "live"
    /\ last' = NoOperation
    /\ pre' = Machine(0, <<>>)
    /\ UNCHANGED <<INDEX_TO_TERM, TERM_TO_INDEX, variables, values, step, rel,
                   threads, nested>>

\* The variable ids a caller passes: those of the Machine, and the first one
\* that is out of its range.
Arguments == 0 .. variables

Next ==
    \/ pc = "start" /\ \E n \in 0 .. MaxN : \E f \in [Terms(n) -> BOOLEAN] : New(n, f)
    \/ TestThree
    \/ pc = "start" /\ \E n \in 1 .. MaxN : \E index \in Indices(AllMachines[n]) :
                            All(n, index)
    \/ \E variable \in Arguments : Flip(variable)
    \/ \E variable \in Arguments : Get(variable)
    \/ \E variable \in Arguments : \E value \in BOOLEAN : Set(variable, value)
    \/ Continue

Spec == Init /\ [][Next]_vars

\* The callers that keep to the precondition of flip, get and set: the variable
\* is one of the Machine.
NextInRange ==
    \/ pc = "start" /\ \E n \in 0 .. MaxN : \E f \in [Terms(n) -> BOOLEAN] : New(n, f)
    \/ TestThree
    \/ pc = "start" /\ \E n \in 1 .. MaxN : \E index \in Indices(AllMachines[n]) :
                            All(n, index)
    \/ \E variable \in 0 .. (variables - 1) : Flip(variable)
    \/ \E variable \in 0 .. (variables - 1) : Get(variable)
    \/ \E variable \in 0 .. (variables - 1) : \E value \in BOOLEAN : Set(variable, value)
    \/ Continue

SpecInRange == Init /\ [][NextInRange]_vars

\* -------------------------------------------------------------- threads

\* How often a closure of or_insert_with may run for one size in one thread
\* before the exploration stops following the thread.
MaxBuilds == 2

\* index_to_term in a thread: the closure runs when the entry is vacant.
local_index_to_term(local, n) ==
    [local EXCEPT !.INDEX_TO_TERM = index_to_term(@, n),
                  !.tables_built[n] =
                      @ + (IF n \in DOMAIN local.INDEX_TO_TERM THEN 0 ELSE 1)]

\* term_to_index in a thread: the closure runs when the entry is vacant, and
\* reads the Term Table through index_to_term.
local_term_to_index(local, n) ==
    IF n \in DOMAIN local.TERM_TO_INDEX THEN local
    ELSE LET read == local_index_to_term(local, n)
         IN  [read EXCEPT !.TERM_TO_INDEX = term_to_index(@, read.INDEX_TO_TERM, n),
                          !.maps_built[n] = @ + 1]

\* A Machine of n variables exists in the process: some thread has run
\* Machine::new for n. Machine is plain data (usize, Vec<bool>) and Clone, so
\* any thread may come to hold it.
machine_exists(n) == \E t \in Threads : n \in DOMAIN threads.of[t].INDEX_TO_TERM

\* Thread t has made the call op on a Machine of n variables, which has left its
\* thread-locals as `after`.
ThreadCall(t, op, n, after) ==
    /\ nested.state = "idle"
    /\ threads.last = NoCall
    /\ threads.of[t].tables_built[n] < MaxBuilds
    /\ threads.of[t].maps_built[n] < MaxBuilds
    /\ threads' =
          [of |-> [threads.of EXCEPT ![t] = after],
           last |-> [thread |-> t, op |-> op, n |-> n,
                     tables_built |-> after.tables_built[n] - threads.of[t].tables_built[n],
                     maps_built |-> after.maps_built[n] - threads.of[t].maps_built[n]]]
    /\ UNCHANGED <<INDEX_TO_TERM, TERM_TO_INDEX, pc, variables, values, last, pre,
                   step, rel, nested>>

\* Machine::new(n, ..) in thread t: one index_to_term.
ThreadNew(t, n) == ThreadCall(t, "new", n, local_index_to_term(threads.of[t], n))

\* Machine::all(n) in thread t, n >= 1: Machine::new for the first signature and
\* again for the later ones.
ThreadAll(t, n) ==
    /\ n >= 1
    /\ ThreadCall(t, "all", n,
                  local_index_to_term(local_index_to_term(threads.of[t], n), n))

\* format!("{:?}", machine) in thread t: one index_to_term.
ThreadDebug(t, n) ==
    /\ machine_exists(n)
    /\ ThreadCall(t, "fmt", n, local_index_to_term(threads.of[t], n))

\* machine.get(..) in thread t: one term_to_index.
ThreadGet(t, n) ==
    /\ machine_exists(n)
    /\ ThreadCall(t, "get", n, local_term_to_index(threads.of[t], n))

\* machine.flip(..) in thread t: term_to_index, and index_to_term inside it.
ThreadFlip(t, n) ==
    /\ machine_exists(n)
    /\ ThreadCall(t, "flip", n,
                  local_index_to_term(local_term_to_index(threads.of[t], n), n))

\* machine.set(..) in thread t: get, and flip when the value differs.
ThreadSet(t, n, differs) ==
    /\ machine_exists(n)
    /\ LET got == local_term_to_index(threads.of[t], n)
       IN  ThreadCall(t, "set", n,
                      IF differs
                      THEN local_index_to_term(local_term_to_index(got, n), n)
                      ELSE got)

\* The outcome of the last call has been looked at; the record of the call is
\* dropped and the threads go on.
ThreadContinue ==
    /\ threads.last # NoCall
    /\ threads' = [threads EXCEPT !.last = NoCall]
    /\ UNCHANGED <<INDEX_TO_TERM, TERM_TO_INDEX, pc, variables, values, last, pre,
                   step, rel, nested>>

NextThreads ==
    \/ \E t \in Threads : \E n \in Sizes : ThreadNew(t, n)
    \/ \E t \in Threads : \E n \in Sizes : ThreadAll(t, n)
    \/ \E t \in Threads : \E n \in Sizes : ThreadDebug(t, n)
    \/ \E t \in Threads : \E n \in Sizes : ThreadGet(t, n)
    \/ \E t \in Threads : \E n \in Sizes : ThreadFlip(t, n)
    \/ \E t \in Threads : \E n \in Sizes : \E differs \in BOOLEAN :
            ThreadSet(t, n, differs)
    \/ ThreadContinue

\* The threads of a process, each with its own caches, calling the operations in
\* any order.
SpecThreads == Init /\ [][NextThreads]_vars

\* --------------------------------------------------------------- nested

\* The thread that runs Machine::new with a producer that calls the Machine API.
Owner == "main"

\* The outcome of a call that hit RefCell::borrow_mut on a cell that is borrowed.
AlreadyBorrowed == "already borrowed"

\* Mutant of new_borrows: index_to_term drops its RefMut before it calls the
\* consumer.
new_borrows_released == NoBorrows

\* The borrows held while the consumer of index_to_term, the producer loop of
\* Machine::new, runs: `caches`, the RefMut of INDEX_TO_TERM, lives until the
\* consumer has returned.
new_borrows == [NoBorrows EXCEPT !.INDEX_TO_TERM = TRUE]

\* index_to_term when cells may be borrowed: borrow_mut panics on a borrowed
\* cell, before the entry is looked at.
try_index_to_term(local, borrowed, n) ==
    IF borrowed.INDEX_TO_TERM
    THEN [outcome |-> AlreadyBorrowed, local |-> local]
    ELSE [outcome |-> "returned", local |-> local_index_to_term(local, n)]

\* term_to_index when cells may be borrowed: borrow_mut of TERM_TO_INDEX, then,
\* for a vacant entry only, the closure and its index_to_term; when that panics
\* nothing has been inserted.
try_term_to_index(local, borrowed, n) ==
    IF borrowed.TERM_TO_INDEX
    THEN [outcome |-> AlreadyBorrowed, local |-> local]
    ELSE IF n \in DOMAIN local.TERM_TO_INDEX
    THEN [outcome |-> "returned", local |-> local]
    ELSE IF borrowed.INDEX_TO_TERM
    THEN [outcome |-> AlreadyBorrowed, local |-> local]
    ELSE [outcome |-> "returned", local |-> local_term_to_index(local, n)]

\* A call of the Machine API on a Machine of k variables, made while cells may
\* be borrowed: new, all (k >= 1) and fmt go through index_to_term, get (of a
\* variable below k) through term_to_index, flip through term_to_index and,
\* inside its consumer, index_to_term.
inner_call(op, local, borrowed, k) ==
    IF op \in {"new", "all", "fmt"} THEN try_index_to_term(local, borrowed, k)
    ELSE IF op = "get" THEN try_term_to_index(local, borrowed, k)
    ELSE LET indexed == try_term_to_index(local, borrowed, k)
         IN  IF indexed.outcome = AlreadyBorrowed THEN indexed
             ELSE try_index_to_term(indexed.local,
                                    [borrowed EXCEPT !.TERM_TO_INDEX = TRUE], k)

\* Machine::new(n, P) up to the first call of P: index_to_term has borrowed
\* INDEX_TO_TERM, filled the entry for n, and runs the producer loop.
NestedNewBegin(n) ==
    /\ nested.state = "idle"
    /\ threads.last = NoCall
    /\ threads.of[Owner].tables_built[n] < MaxBuilds
    /\ nested' = [NotNested EXCEPT !.state = "running", !.n = n,
                                   !.borrowed = new_borrows]
    /\ threads' = [threads EXCEPT !.of[Owner] = local_index_to_term(@, n)]
    /\ UNCHANGED <<INDEX_TO_TERM, TERM_TO_INDEX, pc, variables, values, last, pre,
                   step, rel>>

\* One turn of the producer loop in which P returns a value without a call of
\* the Machine API; the value is pushed.
NestedProducerReturns ==
    /\ nested.state = "running"
    /\ nested.pushed < Len(threads.of[Owner].INDEX_TO_TERM[nested.n])
    /\ nested' = [nested EXCEPT !.pushed = @ + 1, !.inner = NoInnerCall]
    /\ UNCHANGED <<INDEX_TO_TERM, TERM_TO_INDEX, pc, variables, values, last, pre,
                   step, rel, threads>>

\* One turn of the producer loop in which P makes the call op on a Machine of
\* k variables. When the call returns P returns a value, which is pushed; when
\* it panics the panic unwinds through P and Machine::new, and the borrows are
\* released on the way.
NestedProducerCalls(op, k) ==
    /\ nested.state = "running"
    /\ nested.pushed < Len(threads.of[Owner].INDEX_TO_TERM[nested.n])
    /\ op \in {"all", "get"} => k >= 1
    /\ op \in {"get", "flip", "fmt"} => machine_exists(k)
    /\ threads.of[Owner].tables_built[k] < MaxBuilds
    /\ threads.of[Owner].maps_built[k] < MaxBuilds
    /\ LET call == inner_call(op, threads.of[Owner], nested.borrowed, k)
           record == [op |-> op, k |-> k,
                      cached |-> k \in DOMAIN threads.of[Owner].TERM_TO_INDEX,
                      outcome |-> call.outcome]
       IN  /\ threads' = [threads EXCEPT !.of[Owner] = call.local]
           /\ nested' = IF call.outcome = AlreadyBorrowed
                        THEN [nested EXCEPT !.state = "panicked", !.inner = record,
                                            !.borrowed = NoBorrows]
                        ELSE [nested EXCEPT !.pushed = @ + 1, !.inner = record]
    /\ UNCHANGED <<INDEX_TO_TERM, TERM_TO_INDEX, pc, variables, values, last, pre,
                   step, rel>>

\* The producer loop has visited every term: the consumer returns, the borrow
\* is released and Machine::new returns the Machine.
NestedNewEnd ==
    /\ nested.state = "running"
    /\ nested.pushed = Len(threads.of[Owner].INDEX_TO_TERM[nested.n])
    /\ nested' = NotNested
    /\ UNCHANGED <<INDEX_TO_TERM, TERM_TO_INDEX, pc, variables, values, last, pre,
                   step, rel, threads>>

\* The calls of the Machine API a producer makes.
InnerCalls == {"new", "all", "flip", "fmt", "get"}

NextNested ==
    \/ \E n \in Sizes : ThreadNew(Owner, n)
    \/ \E n \in Sizes : ThreadGet(Owner, n)
    \/ ThreadContinue
    \/ \E n \in Sizes : NestedNewBegin(n)
    \/ NestedProducerReturns
    \/ \E op \in InnerCalls : \E k \in Sizes : NestedProducerCalls(op, k)
    \/ NestedNewEnd

\* One thread that builds and reads Machines, and calls Machine::new with
\* producers that call the Machine API themselves.
SpecNested == Init /\ [][NextNested]_vars

\* --------------------------------------------------------------- claims

\* The operation that has just returned.
Returned(op) == pc = "returned" /\ last.op = op

\* The Term Table and the Index Map of the live Machine, as an operation that
\* has not run yet would read them from the caches.
Table == index_to_term(INDEX_TO_TERM, variables)[variables]
Index == term_to_index(TERM_TO_INDEX, INDEX_TO_TERM, variables)[variables]

\* Whether the table holds the term.
term_exists(table, term) == \E i \in 1 .. Len(table) : table[i] = term

\* What C1 says flip(v) makes of an array: the value of term s is toggled iff
\* s = [v], or [v] ++ s is a term that was true; every other value is kept.
expected_after_flip(before, table, v) ==
    [i \in 1 .. Len(before) |->
        LET s == table[i]
        IN  IF \/ s = <<v>>
               \/ /\ term_exists(table, <<v>> \o s)
                  /\ value_of(before, table, <<v>> \o s)
            THEN ~before[i] ELSE before[i]]

\* The suffixes C1 says flip(v) selects, read from the array before the flip.
expected_suffixes(before, table, v) ==
    {s \in {table[i] : i \in 1 .. Len(table)} :
        term_exists(table, <<v>> \o s) /\ value_of(before, table, <<v>> \o s)}

\* The values of tests::three before and after its flip(0), in Term Table order:
\* [0] [1] [2] [0,1] [0,2] [1,0] [1,2] [2,0] [2,1] [0,1,2] [0,2,1] [1,0,2] ...
ThreeBefore ==
    <<FALSE, TRUE, TRUE, TRUE, TRUE, TRUE, TRUE, TRUE, FALSE,
      FALSE, TRUE, FALSE, FALSE, FALSE, FALSE>>
ThreeAfterFlip0 ==
    <<TRUE, FALSE, FALSE, TRUE, TRUE, TRUE, TRUE, TRUE, TRUE,
      FALSE, TRUE, FALSE, FALSE, FALSE, FALSE>>

\* C1: when flip(v) has returned, the array is the array before the call with
\* exactly these values toggled: the singleton [v], and every suffix s for which
\* [v] ++ s is a term that was true before the call. The suffixes the scan
\* collects are those the array before the call determines, each collected once.
C1_FlipEffect ==
    Returned("flip") =>
        /\ values = expected_after_flip(pre.values, Table, last.variable)
        /\ LET scanned == toggle(pre.values, Index[<<last.variable>>])
               terms == collect_terms_to_flip(scanned, Table, last.variable, 0)
           IN  /\ {terms[i] : i \in 1 .. Len(terms)}
                    = expected_suffixes(pre.values, Table, last.variable)
               /\ \A i, j \in 1 .. Len(terms) : terms[i] = terms[j] => i = j

\* C1 witness: tests::three: flip(0) on the machine of the test has returned, and
\* has toggled [0], [1], [2] and the two-element suffix [2,1].
C1_Witness ==
    /\ Returned("flip") /\ last.variable = 0
    /\ variables = ThreeVariables
    /\ pre.values = ThreeBefore
    /\ values = ThreeAfterFlip0

\* C2: when flip(v) has returned, a second flip(v) made right away leaves the
\* whole values array as it was before the first.
C2_FlipTwiceRestores ==
    Returned("flip") =>
        /\ flip(values, Table, Index, last.variable) = pre.values
        /\ get(flip(values, Table, Index, last.variable), Index, last.variable)
             = get(pre.values, Index, last.variable)

\* C2 witness: a flip has returned that changed more than the singleton, so the
\* second flip has a cascade to undo.
C2_Witness ==
    /\ Returned("flip")
    /\ variables = 2
    /\ Cardinality({i \in 1 .. Len(values) : values[i] # pre.values[i]}) = 2

\* C3: when set(v, x) has returned, a second set(v, x) made right away changes
\* no entry of values.
C3_SetTwiceSame ==
    Returned("set") =>
        set(values, Table, Index, last.variable, last.value) = values

\* C3 witness: a set has returned that did change the machine (it flipped).
C3_Witness ==
    /\ Returned("set")
    /\ variables = 2
    /\ values # pre.values

\* C4: set(v, x) called when the singleton [v] holds x leaves every entry of
\* values unchanged; called when it holds the other value it has the effect of
\* flip(v). get returns the value of the singleton and changes no entry.
C4_SetIsFlipOrNothing ==
    /\ Returned("set") =>
          IF value_of(pre.values, Table, <<last.variable>>) = last.value
          THEN values = pre.values
          ELSE values = expected_after_flip(pre.values, Table, last.variable)
    /\ Returned("get") =>
          /\ values = pre.values
          /\ last.ret = value_of(values, Table, <<last.variable>>)

\* C4 witness: set(1, false) has returned without a change while a cascade was
\* there to run: variable 1 was false already and [1,0] is true.
C4_Witness ==
    /\ Returned("set") /\ last.variable = 1 /\ last.value = FALSE
    /\ variables = 2
    /\ values = pre.values
    /\ value_of(values, Table, <<1, 0>>)

\* The pairs (get(0), get(1)) tests::experimental asserts after each of its set
\* calls, in order.
Golden ==
    << <<TRUE, TRUE>>, <<FALSE, FALSE>>, <<FALSE, TRUE>>, <<FALSE, FALSE>>,
       <<FALSE, TRUE>>, <<TRUE, FALSE>>, <<TRUE, FALSE>>, <<FALSE, TRUE>> >>

\* C5: on the machine of tests::experimental, after each of the eight set calls
\* of the test, made in order, get(0) and get(1) are the pair the golden trace
\* lists for that step; a get made at that point returns that value.
C5_GoldenTrace ==
    step \in 1 .. Len(Golden) =>
        /\ get(values, Index, 0) = Golden[step][1]
        /\ get(values, Index, 1) = Golden[step][2]
        /\ Returned("get") => last.ret = Golden[step][last.variable + 1]

\* C5 witness: the last call of the script, set(0, false), has returned.
C5_Witness ==
    /\ step = Len(Golden)
    /\ Returned("set") /\ last.variable = 0 /\ last.value = FALSE

\* C6: a machine of two variables built with [0,1] and [1,0] both true keeps the
\* relation its two variables had at construction: equal stay equal, different
\* stay different, whatever flip and set calls are made.
C6_RelationPreserved ==
    /\ rel = "eq" => get(values, Index, 0) = get(values, Index, 1)
    /\ rel = "neq" => get(values, Index, 0) # get(values, Index, 1)

\* C6 witness: tests::not_equals at its end: built different, set(1, false) has
\* returned and has moved both variables.
C6_Witness ==
    /\ rel = "neq"
    /\ Returned("set") /\ last.variable = 1 /\ last.value = FALSE
    /\ pre.values = <<FALSE, TRUE, TRUE, TRUE>>
    /\ values = <<TRUE, FALSE, TRUE, TRUE>>

\* Terms(n) for the universe sizes the model uses.
AllTerms == [n \in DOMAIN TermTables |-> Terms(n)]

\* C7: when new(n, P) has returned, P has been called with the terms of the Term
\* Table for n in table order, each term of the universe exactly once; values[i]
\* is what the i-th call returned; and get(v) is P([v]) for every v < n.
C7_NewCallsProducer ==
    Returned("new") =>
        /\ last.calls = Table
        /\ Len(last.calls) = Cardinality(AllTerms[variables])
        /\ \A t \in AllTerms[variables] :
              \E i \in 1 .. Len(last.calls) : last.calls[i] = t
        /\ Len(values) = Len(last.calls)
        /\ \A i \in 1 .. Len(values) : values[i] = last.f[last.calls[i]]
        /\ \A v \in 0 .. (variables - 1) : get(values, Index, v) = last.f[<<v>>]

\* C7 witness: the construction of tests::experimental has returned.
C7_Witness ==
    /\ Returned("new")
    /\ variables = 2
    /\ last.f = experimental_producer
    /\ values = <<FALSE, FALSE, TRUE, FALSE>>

RECURSIVE falling(_, _)
\* n! / (n - k)! as the product n * (n - 1) * ... * (n - k + 1).
falling(n, k) == IF k = 0 THEN 1 ELSE n * falling(n - 1, k - 1)

RECURSIVE term_count_from(_, _)
term_count_from(n, k) == IF k > n THEN 0 ELSE falling(n, k) + term_count_from(n, k + 1)

\* The size of the Term Table for n: the sum over k = 1..n of n! / (n - k)!.
TermCount(n) == term_count_from(n, 1)

\* C8: a Machine that exists has as many values as the Term Table for its
\* variables has terms; flip, set and get leave variables and the length alone;
\* a flip or set of a machine that is an element of all(n) gives an element of
\* all(n).
C8_LengthInvariant ==
    pc # "start" =>
        /\ Len(values) = Len(Table)
        /\ Len(values) = TermCount(variables)
        /\ last.op \in {"flip", "set", "get"} =>
              /\ pre.variables = variables
              /\ Len(pre.values) = Len(values)
        /\ (/\ last.op \in {"flip", "set"}
            /\ variables \in DOMAIN AllValues
            /\ pre.values \in AllValues[variables]) =>
              values \in AllValues[variables]

\* C8 witness: a flip of an element of all(2) has returned with another element
\* of all(2).
C8_Witness ==
    /\ Returned("flip")
    /\ variables = 2
    /\ pre.values \in AllValues[2]
    /\ values \in AllValues[2]
    /\ values # pre.values
    /\ Len(values) = 4

\* Whether all(n) is every boolean assignment over the Term Table, each once.
all_is_complete(n) ==
    /\ Len(AllMachines[n]) = 2 ^ TermCount(n)
    /\ Cardinality(AllValues[n]) = Len(AllMachines[n])
    /\ AllValues[n] = [1 .. TermCount(n) -> BOOLEAN]

\* all_is_complete for the universe sizes explored, evaluated once.
AllComplete == [n \in DOMAIN AllMachines |-> all_is_complete(n)]

\* C9: when all(n) has returned, n >= 1, it has returned 2^|terms(n)| machines,
\* no two with the same values, and every boolean assignment over the Term Table
\* for n is the values of one of them; the machine taken is the one at its index.
C9_AllComplete ==
    Returned("all") =>
        /\ variables >= 1
        /\ last.len = 2 ^ TermCount(variables)
        /\ last.len = Len(AllMachines[variables])
        /\ AllComplete[variables]
        /\ values = At(AllMachines[variables], last.index)

\* C9 witness: all(2) has returned 16 machines and the last one, all true, is
\* the one taken.
C9_Witness ==
    /\ Returned("all")
    /\ variables = 2
    /\ last.len = 16
    /\ last.index = 15
    /\ values = <<TRUE, TRUE, TRUE, TRUE>>

\* Shorter terms first; terms of one length in lexicographic order.
TermLess(a, b) ==
    \/ Len(a) < Len(b)
    \/ /\ Len(a) = Len(b)
       /\ \E i \in 1 .. Len(a) :
            /\ a[i] < b[i]
            /\ \A j \in 1 .. (i - 1) : a[j] = b[j]

\* Whether the table lists exactly the terms over {0..n-1}, each once, by
\* increasing length and lexicographically within a length.
is_term_table(table, n) ==
    /\ {table[i] : i \in 1 .. Len(table)} = Terms(n)
    /\ Len(table) = TermCount(n)
    /\ \A i, j \in 1 .. Len(table) : i < j => TermLess(table[i], table[j])

\* is_term_table of the tables the closure of index_to_term builds, evaluated once.
TermTableOrdered == [n \in DOMAIN TermTables |-> is_term_table(TermTables[n], n)]

\* C10: every Term Table in the cache is the list of the permutations of the
\* non-empty subsets of {0..n-1}, each once, sum of n!/(n-k)! in all, by
\* increasing length and lexicographically within a length ([0], [1], [0,1],
\* [1,0] for n = 2); and an operation leaves every cached table as it is, so
\* every call for the same n reads the same order.
C10_TermTableOrder ==
    /\ [](\A n \in DOMAIN INDEX_TO_TERM :
            /\ INDEX_TO_TERM[n] = TermTables[n]
            /\ TermTableOrdered[n]
            /\ n = 2 => INDEX_TO_TERM[n] = << <<0>>, <<1>>, <<0, 1>>, <<1, 0>> >>)
    /\ [][\A n \in DOMAIN INDEX_TO_TERM :
            /\ n \in DOMAIN INDEX_TO_TERM'
            /\ INDEX_TO_TERM'[n] = INDEX_TO_TERM[n]]_vars

\* C10 witness: the table for three variables is cached and has been read by a
\* second operation (flip, after new).
C10_Witness ==
    /\ Returned("flip")
    /\ ThreeVariables \in DOMAIN INDEX_TO_TERM
    /\ Len(INDEX_TO_TERM[ThreeVariables]) = 15
    /\ INDEX_TO_TERM[ThreeVariables][9] = <<2, 1>>
    /\ INDEX_TO_TERM[ThreeVariables][15] = <<2, 1, 0>>

\* Whether the map is the inverse of the table: its keys are the terms of the
\* table, its values the positions 0 .. len - 1, and both round trips are the
\* identity.
is_index_map(tti, table) ==
    /\ DOMAIN tti = {table[i] : i \in 1 .. Len(table)}
    /\ {tti[term] : term \in DOMAIN tti} = 0 .. (Len(table) - 1)
    /\ \A term \in DOMAIN tti : At(table, tti[term]) = term
    /\ \A index \in Indices(table) : tti[At(table, index)] = index

\* is_index_map of the maps the closure of term_to_index builds, evaluated once.
IndexMapInverse == [n \in DOMAIN TermIndexes |-> is_index_map(TermIndexes[n], TermTables[n])]

\* C11: every Index Map in the cache is a bijection between the terms of the
\* Term Table for the same n and the positions 0 .. |terms(n)| - 1, in table
\* order: term -> index -> term and index -> term -> index are the identity.
\* For n = 0 both are empty.
C11_IndexMapBijection ==
    \A n \in DOMAIN TERM_TO_INDEX :
        /\ n \in DOMAIN INDEX_TO_TERM
        /\ INDEX_TO_TERM[n] = TermTables[n]
        /\ TERM_TO_INDEX[n] = TermIndexes[n]
        /\ IndexMapInverse[n]
        /\ n = 0 => TERM_TO_INDEX[n] = <<>>

\* C11 witness: the Index Map for two variables has been built by a get and
\* holds [1,0] at position 3.
C11_Witness ==
    /\ Returned("get")
    /\ 2 \in DOMAIN TERM_TO_INDEX
    /\ TERM_TO_INDEX[2][<<1, 0>>] = 3
    /\ At(INDEX_TO_TERM[2], 3) = <<1, 0>>

\* C12: get, set and flip called with a variable that is not below variables
\* (any variable when variables = 0) never return: they panic, and the values
\* are what they were when the call was made. A call with a variable below
\* variables does not panic.
C12_OutOfRangeFatal ==
    /\ (pc = "returned" /\ last.op \in {"get", "set", "flip"}) =>
            last.variable < variables
    /\ pc = "panicked" =>
            /\ last.op \in {"get", "set", "flip"}
            /\ last.variable >= variables
            /\ values = pre.values
            /\ variables = pre.variables

\* C12 witness: a flip of variable 2 on a machine of two variables, one of its
\* values true, has panicked.
C12_Witness ==
    /\ pc = "panicked"
    /\ last.op = "flip" /\ last.variable = 2
    /\ variables = 2
    /\ values = <<FALSE, TRUE, TRUE, FALSE>>

\* C12 again for the machine without variables: get(0) has panicked.
C12_WitnessEmpty ==
    /\ pc = "panicked"
    /\ last.op = "get" /\ last.variable = 0
    /\ variables = 0
    /\ values = <<>>

\* The thread-locals of a thread.
LocalsOf(t) == threads.of[t]

\* C13: in every thread, over any sequence of new, all, get, set, flip and fmt
\* calls on Machines of any sizes, the Term Table and the Index Map for a size
\* are each built at most once, by the first call that uses the size, and an
\* entry that is in a cache stays in it with the contents it has.
C13_BuiltOnceNeverChanged ==
    /\ [](\A t \in Threads : \A n \in Sizes :
            /\ LocalsOf(t).tables_built[n] <= 1
            /\ LocalsOf(t).maps_built[n] <= 1
            /\ LocalsOf(t).tables_built[n] = 1 <=> n \in DOMAIN LocalsOf(t).INDEX_TO_TERM
            /\ LocalsOf(t).maps_built[n] = 1 <=> n \in DOMAIN LocalsOf(t).TERM_TO_INDEX)
    /\ [][\A t \in Threads :
            /\ \A n \in DOMAIN LocalsOf(t).INDEX_TO_TERM :
                  /\ n \in DOMAIN LocalsOf(t).INDEX_TO_TERM'
                  /\ LocalsOf(t).INDEX_TO_TERM'[n] = LocalsOf(t).INDEX_TO_TERM[n]
            /\ \A n \in DOMAIN LocalsOf(t).TERM_TO_INDEX :
                  /\ n \in DOMAIN LocalsOf(t).TERM_TO_INDEX'
                  /\ LocalsOf(t).TERM_TO_INDEX'[n] = LocalsOf(t).TERM_TO_INDEX[n]]_vars

\* C13 witness: a thread that holds the tables and maps of two sizes has made a
\* flip that built nothing.
C13_Witness ==
    /\ threads.last.op = "flip" /\ threads.last.n = 2
    /\ threads.last.tables_built = 0 /\ threads.last.maps_built = 0
    /\ DOMAIN LocalsOf(threads.last.thread).TERM_TO_INDEX = {1, 2}
    /\ LocalsOf(threads.last.thread).tables_built[2] = 1
    /\ LocalsOf(threads.last.thread).maps_built[2] = 1

\* How many threads have built the Term Table for n.
builders(n) == Cardinality({t \in Threads : LocalsOf(t).tables_built[n] > 0})

\* Every thread that holds a Term Table for n holds the same one.
same_ordering(n) ==
    \A t, u \in Threads :
        (n \in DOMAIN LocalsOf(t).INDEX_TO_TERM /\ n \in DOMAIN LocalsOf(u).INDEX_TO_TERM)
            => LocalsOf(t).INDEX_TO_TERM[n] = LocalsOf(u).INDEX_TO_TERM[n]

\* C14 as stated: when several threads use the same size, one build of the Term
\* Table wins for all of them, and every thread reads the same ordering.
C14_OneBuildWins ==
    \A n \in Sizes : builders(n) <= 1 /\ same_ordering(n)

\* C14, amended: the caches are thread_local!, so nothing is shared and nothing
\* is serialized: every thread that uses a size builds its own Term Table for
\* it, once, on its own first use; the build is a function of the size alone, so
\* every thread reads the same ordering.
C14_OneBuildPerThread ==
    \A n \in Sizes :
        /\ \A t \in Threads :
              /\ LocalsOf(t).tables_built[n] <= 1
              /\ LocalsOf(t).tables_built[n] = 1 <=> n \in DOMAIN LocalsOf(t).INDEX_TO_TERM
              /\ n \in DOMAIN LocalsOf(t).INDEX_TO_TERM =>
                    LocalsOf(t).INDEX_TO_TERM[n] = TermTables[n]
        /\ same_ordering(n)

\* C14 witness: both threads have used size 2, each has built the table, and the
\* last call was the first use of the second of them.
C14_Witness ==
    /\ builders(2) = 2
    /\ threads.last.n = 2 /\ threads.last.tables_built = 1
    /\ \A t \in Threads : LocalsOf(t).INDEX_TO_TERM[2] = << <<0>>, <<1>>, <<0, 1>>, <<1, 0>> >>

\* C15: when flip(v) has returned on a machine of two or more variables, get(w)
\* of every other variable w differs from what it was before the call exactly
\* when the term [v, w] was true before the call. With [0,1] true and [1,0]
\* false, flip(0) toggles variable 1 and flip(1) leaves variable 0 as it is.
C15_PairTermDecides ==
    (Returned("flip") /\ variables >= 2) =>
        /\ \A w \in 0 .. (variables - 1) :
              w # last.variable =>
                  ((get(values, Index, w) # get(pre.values, Index, w))
                      <=> value_of(pre.values, Table, <<last.variable, w>>))
        /\ (/\ variables = 2
            /\ value_of(pre.values, Table, <<0, 1>>)
            /\ ~value_of(pre.values, Table, <<1, 0>>)) =>
              IF last.variable = 0
              THEN get(values, Index, 1) # get(pre.values, Index, 1)
              ELSE get(values, Index, 0) = get(pre.values, Index, 0)

\* C15 witness: the machine of tests::experimental as built, flip(0) has
\* returned and has toggled variable 1 with variable 0.
C15_Witness ==
    /\ Returned("flip") /\ last.variable = 0
    /\ variables = 2
    /\ pre.values = <<FALSE, FALSE, TRUE, FALSE>>
    /\ values = <<TRUE, TRUE, TRUE, FALSE>>

\* C15 again for the other direction: flip(1) on that machine has left variable
\* 0 as it was.
C15_WitnessOther ==
    /\ Returned("flip") /\ last.variable = 1
    /\ variables = 2
    /\ pre.values = <<FALSE, FALSE, TRUE, FALSE>>
    /\ values = <<FALSE, TRUE, TRUE, FALSE>>

\* C16: when flip(v) has returned, get(v) is the negation of what it was before
\* the call, whatever the cascade has toggled; when set(v, x) has returned,
\* get(v) is x, whatever the machine was before the call.
C16_FlipNegatesSetEstablishes ==
    /\ Returned("flip") =>
          get(values, Index, last.variable) = ~get(pre.values, Index, last.variable)
    /\ Returned("set") =>
          get(values, Index, last.variable) = last.value

\* C16 witness: set(0, true) has returned on a machine of three variables where
\* it had to flip, and the cascade has toggled other terms.
C16_Witness ==
    /\ Returned("set") /\ last.variable = 0 /\ last.value = TRUE
    /\ variables = ThreeVariables
    /\ pre.values = ThreeBefore
    /\ values = ThreeAfterFlip0
    /\ get(values, Index, 0)

\* Whether the variable occurs in the term.
contains(term, variable) == \E i \in 1 .. Len(term) : term[i] = variable

\* The positions of the terms that contain the variable and are not its
\* singleton hold what they held before the last call.
containing_terms_kept ==
    \A i \in 1 .. Len(values) :
        (contains(Table[i], last.variable) /\ Table[i] # <<last.variable>>)
            => values[i] = pre.values[i]

\* The positions of the terms of the maximal length n hold what they held before
\* the last call.
maximal_terms_kept ==
    \A i \in 1 .. Len(values) :
        Len(Table[i]) = variables => values[i] = pre.values[i]

\* C17 as stated: a flip or set of v leaves every term that contains v, other
\* than [v], as it was, and leaves every term of length n as it was.
C17_MaximalTermsConstant ==
    (pc = "returned" /\ last.op \in {"flip", "set"}) =>
        /\ containing_terms_kept
        /\ maximal_terms_kept

\* C17, amended: a flip or set of v leaves every term that contains v, other
\* than [v], as it was (every term that starts with v among them); when n >= 2
\* it leaves every term of length n as it was, so the values of the terms of
\* length n are those of the construction. For n = 1 the only term of length
\* n is the singleton [0], which flip(0) toggles.
C17_ContainingTermsConstant ==
    (pc = "returned" /\ last.op \in {"flip", "set"}) =>
        /\ containing_terms_kept
        /\ \A i \in 1 .. Len(values) :
              (Table[i][1] = last.variable /\ Table[i] # <<last.variable>>)
                  => values[i] = pre.values[i]
        /\ variables >= 2 => maximal_terms_kept
        /\ (variables = 1 /\ last.op = "flip") => values[1] = ~pre.values[1]

\* C17 witness: a flip of a machine of two variables has returned, it has
\* toggled both singletons, and the two terms of length 2 are as they were.
C17_Witness ==
    /\ Returned("flip") /\ last.variable = 1
    /\ variables = 2
    /\ pre.values = <<TRUE, FALSE, FALSE, TRUE>>
    /\ values = <<FALSE, TRUE, FALSE, TRUE>>

\* The longest values array whose scan is tried in every iteration order; a
\* longer one is scanned forwards and backwards.
MaxOrderLen == 4

\* Every order in which len indices can be visited, each index once.
all_orders(len) ==
    {order \in [1 .. len -> 0 .. (len - 1)] :
        \A i, j \in 1 .. len : i # j => order[i] # order[j]}

\* The iteration orders tried for an array of len values.
orders(len) ==
    IF len <= MaxOrderLen THEN all_orders(len)
    ELSE {[i \in 1 .. len |-> i - 1], [i \in 1 .. len |-> len - i]}

\* orders for the lengths the Term Tables have, evaluated once.
Orders == [n \in DOMAIN TermTables |-> orders(Len(TermTables[n]))]

\* C18: when flip(v) has returned, the values are those the single-pass variant
\* gives from the machine before the call, for every iteration order tried (all
\* of them for arrays up to MaxOrderLen values), and those the variant that
\* toggles [v] last gives.
C18_FlipVariantsAgree ==
    Returned("flip") =>
        /\ \A order \in Orders[variables] :
              values = flip_single_pass(pre.values, Table, Index, last.variable, order)
        /\ values = flip_singleton_last(pre.values, Table, Index, last.variable)

\* C18 witness: a flip with a cascade has returned on a machine of two variables
\* whose scan has 24 orders, one of them visiting the selected term first.
C18_Witness ==
    /\ Returned("flip") /\ last.variable = 1
    /\ variables = 2
    /\ pre.values = <<TRUE, TRUE, TRUE, TRUE>>
    /\ values = <<FALSE, FALSE, TRUE, TRUE>>
    /\ Cardinality(Orders[2]) = 24
    /\ <<3, 2, 1, 0>> \in Orders[2]

\* C19: while Machine::new runs its producer loop, INDEX_TO_TERM is mutably
\* borrowed. A call of Machine::new, Machine::all, flip or fmt made by the
\* producer on the same thread panics with a double borrow and Machine::new does
\* not return; a get made by the producer on a Machine of k variables panics in
\* that way exactly when the Index Map for k was not in the cache, and returns
\* when it was.
C19_NestedCallsFail ==
    /\ nested.state = "running" =>
          /\ nested.borrowed.INDEX_TO_TERM
          /\ nested.inner.outcome \in {"none", "returned"}
    /\ nested.inner.op \in {"new", "all", "flip", "fmt"} =>
          /\ nested.inner.outcome = AlreadyBorrowed
          /\ nested.state = "panicked"
    /\ nested.inner.op = "get" =>
          /\ nested.inner.outcome = AlreadyBorrowed <=> ~nested.inner.cached
          /\ nested.inner.outcome = "returned" <=> nested.inner.cached
          /\ nested.state = "panicked" <=> ~nested.inner.cached

\* C19 witness: the producer of a Machine::new(2, ..) has called flip on a
\* Machine of one variable whose Index Map was cached, after two values were
\* pushed, and the call has panicked.
C19_Witness ==
    /\ nested.state = "panicked"
    /\ nested.n = 2 /\ nested.pushed = 2
    /\ nested.inner = [op |-> "flip", k |-> 1, cached |-> TRUE,
                       outcome |-> AlreadyBorrowed]

\* C19 again for get: a get on a Machine whose Index Map was cached has returned
\* inside the producer loop.
C19_WitnessGetReturns ==
    /\ nested.state = "running"
    /\ nested.n = 2 /\ nested.pushed = 3
    /\ nested.inner = [op |-> "get", k |-> 2, cached |-> TRUE, outcome |-> "returned"]

\* C19 again for get: a get on a Machine whose Index Map was not cached has
\* panicked inside the producer loop.
C19_WitnessGetPanics ==
    /\ nested.state = "panicked"
    /\ nested.inner = [op |-> "get", k |-> 2, cached |-> FALSE,
                       outcome |-> AlreadyBorrowed]

====
